---- MODULE Spec2Model ----
(***************************************************************************)
(* A model of the parse / aggregate pipeline of getlogs.py:                *)
(* parse_elb_line (one log line -> record or None) and analyze_files (the  *)
(* loop that folds the records of every line into the report).             *)
(*                                                                         *)
(* Text is modelled as a sequence of one-character strings, so that        *)
(* shlex.split, str.strip, str.split, int(), float() and the two regular   *)
(* expressions are computed character by character as the library          *)
(* computes them.  A Python float is modelled as an IEEE-754 double: a     *)
(* sign, a 53-bit mantissa (a multi-limb natural) and a binary exponent,   *)
(* with round-to-nearest-even after every operation.                       *)
(***************************************************************************)
EXTENDS Integers, Sequences, FiniteSets, TLC

(***************************************************************************)
(* Python values                                                           *)
(***************************************************************************)
\* Python's None.
None == [k |-> "None"]

\* The characters str.strip / str.split / shlex treat as whitespace.
Whitespace == {" ", "\t", "\r", "\n"}

IsSpace(c) == c \in Whitespace

IsDigit(c) == c \in {"0", "1", "2", "3", "4", "5", "6", "7", "8", "9"}

DigitVal(c) ==
  CASE c = "0" -> 0 [] c = "1" -> 1 [] c = "2" -> 2 [] c = "3" -> 3
    [] c = "4" -> 4 [] c = "5" -> 5 [] c = "6" -> 6 [] c = "7" -> 7
    [] c = "8" -> 8 [] c = "9" -> 9

\* str(n) for an integer n, as text.
RECURSIVE NatStr(_)
NatStr(n) ==
  LET d == <<"0", "1", "2", "3", "4", "5", "6", "7", "8", "9">>[(n % 10) + 1]
  IN IF n < 10 THEN <<d>> ELSE NatStr(n \div 10) \o <<d>>

IntStr(n) == IF n < 0 THEN <<"-">> \o NatStr(-n) ELSE NatStr(n)

\* s.startswith(p)
StartsWith(s, p) == Len(s) >= Len(p) /\ SubSeq(s, 1, Len(p)) = p

\* s.strip(): s without its leading and trailing whitespace.
Strip(s) ==
  LET keep == {i \in 1..Len(s) : ~IsSpace(s[i])}
  IN IF keep = {} THEN <<>>
     ELSE SubSeq(s, CHOOSE i \in keep : \A j \in keep : i <= j,
                    CHOOSE i \in keep : \A j \in keep : j <= i)

\* The index after the longest run of characters of s, from i on, that
\* are not in the set end (Len(s) + 1 when the run reaches the end).
RunEnd(s, i, end) ==
  LET stops == {j \in i..Len(s) : s[j] \in end}
  IN IF stops = {} THEN Len(s) + 1 ELSE CHOOSE j \in stops : \A k \in stops : j <= k

\* s.split(): the maximal runs of non-whitespace characters, in order.
Split(s) ==
  LET starts == {i \in 1..Len(s) : ~IsSpace(s[i]) /\ (i = 1 \/ IsSpace(s[i - 1]))}
      nth(n) == CHOOSE i \in starts : Cardinality({j \in starts : j < i}) = n - 1
  IN [n \in 1..Cardinality(starts) |->
        SubSeq(s, nth(n), RunEnd(s, nth(n), Whitespace) - 1)]

\* s.split(":")[0]: the text before the first colon (all of s without one).
BeforeColon(s) == SubSeq(s, 1, RunEnd(s, 1, {":"}) - 1)

(***************************************************************************)
(* shlex.split(line): POSIX mode, whitespace_split, no comment characters. *)
(* The lexer reads the text one character at a time.  st.state is its      *)
(* state: "ws" (' '), "a" (inside a word), "dq" or "sq" (inside a          *)
(* quotation) and "esc" (after a backslash); st.escst is its escapedstate, *)
(* st.token the token being read and st.out the tokens read so far.        *)
(***************************************************************************)
ShlexInit == [state |-> "ws", escst |-> "a", token |-> <<>>, out |-> <<>>]

\* The lexer's step on reading the character c.
ShlexStep(st, c) ==
  CASE st.state = "ws" ->
         IF IsSpace(c) THEN st
         ELSE IF c = "\\" THEN [st EXCEPT !.state = "esc", !.escst = "a"]
         ELSE IF c = "\"" THEN [st EXCEPT !.state = "dq"]
         ELSE IF c = "'" THEN [st EXCEPT !.state = "sq"]
         ELSE [st EXCEPT !.state = "a", !.token = <<c>>]
    [] st.state \in {"dq", "sq"} ->
         IF (st.state = "dq" /\ c = "\"") \/ (st.state = "sq" /\ c = "'")
         THEN [st EXCEPT !.state = "a"]
         ELSE IF c = "\\" /\ st.state = "dq"
         THEN [st EXCEPT !.state = "esc", !.escst = "dq"]
         ELSE [st EXCEPT !.token = Append(st.token, c)]
    [] st.state = "esc" ->
         IF st.escst = "dq" /\ c # "\\" /\ c # "\""
         THEN [st EXCEPT !.state = st.escst, !.token = st.token \o <<"\\", c>>]
         ELSE [st EXCEPT !.state = st.escst, !.token = Append(st.token, c)]
    [] st.state = "a" ->
         IF IsSpace(c)
         THEN [st EXCEPT !.state = "ws", !.token = <<>>,
                         !.out = Append(st.out, st.token)]
         ELSE IF c = "\"" THEN [st EXCEPT !.state = "dq"]
         ELSE IF c = "'" THEN [st EXCEPT !.state = "sq"]
         ELSE IF c = "\\" THEN [st EXCEPT !.state = "esc", !.escst = "a"]
         ELSE [st EXCEPT !.token = Append(st.token, c)]

ShlexStates == {"ws", "a", "dq", "sq", "esc"}

\* The lexer's state after reading s[lo..hi] from state st: the first half
\* of the range, then the second half from the state the first half left.
RECURSIVE ShlexRead(_, _, _, _)
ShlexRead(s, lo, hi, st) ==
  IF lo > hi THEN st
  ELSE IF lo = hi THEN ShlexStep(st, s[lo])
  ELSE LET mid == (lo + hi) \div 2
           left == ShlexRead(s, lo, mid, st)
       IN IF left.state \in ShlexStates THEN ShlexRead(s, mid + 1, hi, left)
          ELSE left

\* The token list, or the ValueError shlex raises when the text ends inside
\* a quotation ("No closing quotation") or after a backslash ("No escaped
\* character").
shlex_split(s) ==
  LET st == ShlexRead(s, 1, Len(s), ShlexInit)
  IN CASE st.state = "ws" -> [err |-> "none", parts |-> st.out]
       [] st.state = "a" -> [err |-> "none", parts |-> Append(st.out, st.token)]
       [] OTHER -> [err |-> "ValueError", parts |-> <<>>]

(***************************************************************************)
(* int(text): optional surrounding whitespace, an optional sign and one or *)
(* more decimal digits; anything else raises ValueError (ok = FALSE).      *)
(* The lines of the model carry no underscore digit separators.            *)
(***************************************************************************)
RECURSIVE DigitsVal(_, _)
DigitsVal(s, acc) ==
  IF s = <<>> THEN acc ELSE DigitsVal(Tail(s), acc * 10 + DigitVal(Head(s)))

AllDigits(s) == s # <<>> /\ \A i \in 1..Len(s) : IsDigit(s[i])

IntOfText(t, signed, body) ==
  IF AllDigits(body)
  THEN [ok |-> TRUE,
        val |-> IF signed /\ Head(t) = "-" THEN -DigitsVal(body, 0)
                ELSE DigitsVal(body, 0)]
  ELSE [ok |-> FALSE, val |-> 0]

SignedText(t) == t # <<>> /\ Head(t) \in {"+", "-"}

Unsigned(t) == IF SignedText(t) THEN Tail(t) ELSE t

IntOfStripped(t) == IntOfText(t, SignedText(t), Unsigned(t))

ParseInt(text) == IntOfStripped(Strip(text))

(***************************************************************************)
(* Naturals of any size: little-endian sequences of 15-bit limbs, without  *)
(* leading zero limbs (zero is the empty sequence).  They carry the exact  *)
(* intermediate results of the double arithmetic below.                    *)
(***************************************************************************)
RECURSIVE BNorm(_)
BNorm(a) ==
  IF a # <<>> /\ a[Len(a)] = 0 THEN BNorm(SubSeq(a, 1, Len(a) - 1)) ELSE a

RECURSIVE BFromInt(_)
BFromInt(n) == IF n = 0 THEN <<>> ELSE <<n % 32768>> \o BFromInt(n \div 32768)

RECURSIVE BAddC(_, _, _)
BAddC(a, b, c) ==
  IF a = <<>> /\ b = <<>> THEN (IF c = 0 THEN <<>> ELSE <<c>>)
  ELSE LET x == (IF a = <<>> THEN 0 ELSE Head(a))
                + (IF b = <<>> THEN 0 ELSE Head(b)) + c
       IN <<x % 32768>>
          \o BAddC(IF a = <<>> THEN a ELSE Tail(a),
                   IF b = <<>> THEN b ELSE Tail(b), x \div 32768)

BAdd(a, b) == BAddC(a, b, 0)

\* a - b for a >= b.
RECURSIVE BSubC(_, _, _)
BSubC(a, b, c) ==
  IF a = <<>> THEN <<>>
  ELSE LET x == Head(a) - (IF b = <<>> THEN 0 ELSE Head(b)) - c
       IN <<x % 32768>>
          \o BSubC(Tail(a), IF b = <<>> THEN b ELSE Tail(b),
                   IF x < 0 THEN 1 ELSE 0)

BSub(a, b) == BNorm(BSubC(a, b, 0))

\* -1, 0 or 1 as a < b, a = b or a > b.
RECURSIVE BCmp(_, _)
BCmp(a, b) ==
  IF Len(a) # Len(b) THEN (IF Len(a) < Len(b) THEN -1 ELSE 1)
  ELSE IF a = <<>> THEN 0
  ELSE IF a[Len(a)] # b[Len(b)] THEN (IF a[Len(a)] < b[Len(b)] THEN -1 ELSE 1)
  ELSE BCmp(BNorm(SubSeq(a, 1, Len(a) - 1)), BNorm(SubSeq(b, 1, Len(b) - 1)))

\* a * k + c for 0 <= k, c <= 32768.
RECURSIVE BMulSmall(_, _, _)
BMulSmall(a, k, c) ==
  IF a = <<>> THEN BFromInt(c)
  ELSE LET x == Head(a) * k + c
       IN <<x % 32768>> \o BMulSmall(Tail(a), k, x \div 32768)

\* Quotient and remainder of a by d, 1 <= d <= 32768.
RECURSIVE BDivSmallFrom(_, _, _, _)
BDivSmallFrom(a, d, i, r) ==
  IF i = 0 THEN [q |-> <<>>, r |-> r]
  ELSE LET x == r * 32768 + a[i]
           rest == BDivSmallFrom(a, d, i - 1, x % d)
       IN [q |-> Append(rest.q, x \div d), r |-> rest.r]

BDivSmall(a, d) ==
  LET res == BDivSmallFrom(a, d, Len(a), 0) IN [q |-> BNorm(res.q), r |-> res.r]

\* a * 2^k and floor(a / 2^k).
BShl(a, k) ==
  IF a = <<>> THEN <<>>
  ELSE [i \in 1..(k \div 15) |-> 0] \o BNorm(BMulSmall(a, 2^(k % 15), 0))

BShr(a, k) ==
  IF Len(a) <= k \div 15 THEN <<>>
  ELSE BDivSmall(SubSeq(a, (k \div 15) + 1, Len(a)), 2^(k % 15)).q

RECURSIVE IntBitLen(_)
IntBitLen(n) == IF n = 0 THEN 0 ELSE 1 + IntBitLen(n \div 2)

BBitLen(a) == IF a = <<>> THEN 0 ELSE 15 * (Len(a) - 1) + IntBitLen(a[Len(a)])

BOdd(a) == a # <<>> /\ a[1] % 2 = 1

(***************************************************************************)
(* Python floats: IEEE-754 doubles.  A finite double is neg, m, e with     *)
(* value (-1)^neg * m * 2^e, where m is zero or has exactly 53 bits.       *)
(* (Subnormals, overflow, infinities and NaN are outside the values the    *)
(* modelled log lines produce.)                                            *)
(***************************************************************************)
DZero == [k |-> "float", neg |-> FALSE, m |-> <<>>, e |-> 0]

IsFloat(v) == v.k = "float"

\* The double nearest to (-1)^neg * (M + f) * 2^e, ties to even, where
\* 0 <= f < 1 and sticky says f > 0.  With sticky, M has at least 55 bits.
\* The mantissa M, of L bits, is cut to its leading 53 bits q (d = L - 53
\* bits are dropped), the dropped part is compared with one half (c), q is
\* rounded up or not, and a q that grew to 54 bits is halved.
Renormalise(neg, q1, e) ==
  IF BBitLen(q1) > 53
  THEN [k |-> "float", neg |-> neg, m |-> BShr(q1, 1), e |-> e + 1]
  ELSE [k |-> "float", neg |-> neg, m |-> q1, e |-> e]

RoundUp(neg, q, e, c, sticky) ==
  Renormalise(neg,
              IF c > 0 \/ (c = 0 /\ (sticky \/ BOdd(q))) THEN BAdd(q, <<1>>) ELSE q,
              e)

RoundQuotient(neg, M, e, sticky, d, q) ==
  RoundUp(neg, q, e + d, BCmp(BSub(M, BShl(q, d)), BShl(<<1>>, d - 1)), sticky)

RoundBits(neg, M, e, sticky, L) ==
  IF L <= 53
  THEN [k |-> "float", neg |-> neg, m |-> BShl(M, 53 - L), e |-> e - (53 - L)]
  ELSE RoundQuotient(neg, M, e, sticky, L - 53, BShr(M, L - 53))

RoundDouble(neg, M, e, sticky) ==
  IF M = <<>> THEN DZero ELSE RoundBits(neg, M, e, sticky, BBitLen(M))

\* x + y on doubles: the exact sum, rounded once.  X and Y are the two
\* mantissas at the common exponent e0, c compares them.
AddMagnitudes(xneg, yneg, X, Y, e0, c) ==
  RoundDouble(IF xneg = yneg \/ c > 0 THEN xneg ELSE yneg,
              IF xneg = yneg THEN BAdd(X, Y)
              ELSE IF c > 0 THEN BSub(X, Y)
              ELSE BSub(Y, X),
              e0, FALSE)

AddAligned(x, y, X, Y, e0) == AddMagnitudes(x.neg, y.neg, X, Y, e0, BCmp(X, Y))

AddAt(x, y, e0) == AddAligned(x, y, BShl(x.m, x.e - e0), BShl(y.m, y.e - e0), e0)

DoubleAdd(x, y) ==
  IF x.m = <<>> THEN y
  ELSE IF y.m = <<>> THEN x
  ELSE AddAt(x, y, IF x.e < y.e THEN x.e ELSE y.e)

\* x / n for a double x and an int 1 <= n <= 32768: the exact quotient,
\* rounded once.
RoundQuotientOf(x, qr) == RoundDouble(x.neg, qr.q, x.e - 20, qr.r # 0)

DoubleDivInt(x, n) ==
  IF x.m = <<>> THEN DZero ELSE RoundQuotientOf(x, BDivSmall(BShl(x.m, 20), n))

DoubleIsNegative(x) == x.neg /\ x.m # <<>>

(***************************************************************************)
(* float(text): optional surrounding whitespace, an optional sign, then    *)
(* digits with an optional decimal point ("12", "0.029", "5.", ".5");      *)
(* the value is the double nearest to the decimal.  Anything else raises   *)
(* ValueError (ok = FALSE).  The lines of the model carry no exponent,     *)
(* underscore, "inf" or "nan" forms.                                       *)
(***************************************************************************)
RECURSIVE BFromDigits(_, _)
BFromDigits(s, acc) ==
  IF s = <<>> THEN acc
  ELSE BFromDigits(Tail(s), BNorm(BMulSmall(acc, 10, DigitVal(Head(s)))))

\* floor(a / 10^f) and whether the division left a remainder.
RECURSIVE BDivPow10(_, _, _)
BDivPow10(a, f, sticky) ==
  IF f = 0 THEN [q |-> a, sticky |-> sticky]
  ELSE LET qr == BDivSmall(a, 10) IN BDivPow10(qr.q, f - 1, sticky \/ qr.r # 0)

RECURSIVE IndexOfPoint(_, _)
IndexOfPoint(s, i) ==
  IF i > Len(s) THEN 0 ELSE IF s[i] = "." THEN i ELSE IndexOfPoint(s, i + 1)

\* The double of the decimal with the digits ip before and fp after the
\* point: digits / 10^f, computed on 70 + 4f extra bits.
FloatOfQuotient(neg, qs, e) == RoundDouble(neg, qs.q, e, qs.sticky)

FloatOfDigits(neg, digits, f) ==
  IF digits # <<>> /\ \A i \in 1..Len(digits) : IsDigit(digits[i])
  THEN [ok |-> TRUE,
        val |-> FloatOfQuotient(neg,
                  BDivPow10(BShl(BFromDigits(digits, <<>>), 70 + 4 * f), f, FALSE),
                  -(70 + 4 * f))]
  ELSE [ok |-> FALSE, val |-> None]

FloatOfParts(neg, ip, fp) == FloatOfDigits(neg, ip \o fp, Len(fp))

FloatOfBody(neg, body, p) ==
  FloatOfParts(neg,
               IF p = 0 THEN body ELSE SubSeq(body, 1, p - 1),
               IF p = 0 THEN <<>> ELSE SubSeq(body, p + 1, Len(body)))

FloatOfUnsigned(neg, body) == FloatOfBody(neg, body, IndexOfPoint(body, 1))

FloatOfStripped(t) == FloatOfUnsigned(SignedText(t) /\ Head(t) = "-", Unsigned(t))

ParseFloat(text) == FloatOfStripped(Strip(text))

(***************************************************************************)
(* The two regular expressions of parse_elb_line, as re.search computes    *)
(* them: the leftmost position at which the pattern matches, each          *)
(* repetition greedy.                                                      *)
(***************************************************************************)
HasAt(s, i, p) == i + Len(p) - 1 <= Len(s) /\ SubSeq(s, i, i + Len(p) - 1) = p

HttpPrefix == <<"h", "t", "t", "p", ":", "/", "/">>
HttpsPrefix == <<"h", "t", "t", "p", "s", ":", "/", "/">>
RestServices ==
  <<"/", "r", "e", "s", "t", "/", "s", "e", "r", "v", "i", "c", "e", "s", "/">>

\* The characters that end a run of [^?\s], of [^/] and of [^/?\s].
EndOfUrl == {"?"} \cup Whitespace
EndOfFolder == {"/"}
EndOfService == {"/", "?"} \cup Whitespace

\* Where https?:// ends when it matches at i, else 0.
SchemeEnd(s, i) ==
  IF HasAt(s, i, HttpsPrefix) THEN i + Len(HttpsPrefix)
  ELSE IF HasAt(s, i, HttpPrefix) THEN i + Len(HttpPrefix)
  ELSE 0

\* re.search(r'https?://[^?\s]+', s): group(0), or None.
SearchUrl(s) ==
  LET at == {i \in 1..Len(s) :
               SchemeEnd(s, i) # 0 /\ RunEnd(s, SchemeEnd(s, i), EndOfUrl) > SchemeEnd(s, i)}
      i == CHOOSE i \in at : \A j \in at : i <= j
  IN IF at = {} THEN None
     ELSE [k |-> "match", group |-> SubSeq(s, i, RunEnd(s, SchemeEnd(s, i), EndOfUrl) - 1)]

\* Where /rest/services/([^/]+/[^/?\s]+) ends when it matches at i, else 0:
\* the first run stops at the next "/", which the pattern then requires.
ServiceEnd(s, i) ==
  LET j == i + Len(RestServices)
      a == RunEnd(s, j, EndOfFolder)
      b == RunEnd(s, a + 1, EndOfService)
  IN IF HasAt(s, i, RestServices) /\ a > j /\ a <= Len(s) /\ b > a + 1
     THEN b ELSE 0

\* re.search(r'/rest/services/([^/]+/[^/?\s]+)', s): group(1), or None.
SearchService(s) ==
  LET at == {i \in 1..Len(s) : ServiceEnd(s, i) # 0}
      i == CHOOSE i \in at : \A j \in at : i <= j
  IN IF at = {} THEN None
     ELSE [k |-> "match",
           group |-> SubSeq(s, i + Len(RestServices), ServiceEnd(s, i) - 1)]

(***************************************************************************)
(* parse_elb_line(line): None for a line that is skipped, the record for a *)
(* line with at least 12 tokens, or the exception the call raises          *)
(* (k = "raise"): the ValueError of shlex.split, or the UnboundLocalError  *)
(* of reading mapservice, which is assigned only inside "if match:".       *)
(***************************************************************************)
\* MinTokens, off by one: a line of 11 tokens is taken for a record.
MinTokensFaulty == 12 - 1

MinTokens == 12

\* try: float(t) except Exception: None
FloatOrNone(t) == IF ParseFloat(t).ok THEN ParseFloat(t).val ELSE None

\* try: int(t) except Exception: 0
IntOrZero(t) == IF ParseInt(t).ok THEN ParseInt(t).val ELSE 0

\* parts[i] of the source (0-based).
Part(parts, i) == parts[i + 1]

parse_elb_line(line) ==
  IF line = <<>> \/ StartsWith(line, <<"#">>) THEN None
  ELSE LET sp == shlex_split(line)
           parts == sp.parts
           request0 == IF Len(parts) > 12 THEN Part(parts, 12) ELSE <<>>
           match == SearchUrl(request0)
           request == IF match # None THEN match.group ELSE request0
           match2 == SearchService(request)
       IN IF sp.err # "none" THEN [k |-> "raise", exc |-> sp.err]
          ELSE IF Len(parts) >= MinTokens
          THEN IF match = None
               THEN [k |-> "raise", exc |-> "UnboundLocalError"]
               ELSE [k |-> "record",
                     timestamp |-> Part(parts, 1),
                     client |-> IF Len(parts) > 2 THEN Part(parts, 2) ELSE <<>>,
                     request_processing_time |-> FloatOrNone(Part(parts, 4)),
                     backend_processing_time |-> FloatOrNone(Part(parts, 5)),
                     response_processing_time |-> FloatOrNone(Part(parts, 6)),
                     elb_status |-> Part(parts, 7),
                     backend_status |-> Part(parts, 8),
                     received_bytes |-> IntOrZero(Part(parts, 9)),
                     sent_bytes |-> IntOrZero(Part(parts, 10)),
                     request |-> request,
                     mapservice |-> IF match2 # None THEN match2.group ELSE <<>>]
          ELSE None

(***************************************************************************)
(* collections.Counter: a dict, which keeps its keys in insertion order.   *)
(* It is modelled as the sequence of its <<key, count>> items.             *)
(***************************************************************************)
CounterGet(c, key) ==
  IF \E i \in 1..Len(c) : c[i][1] = key
  THEN c[CHOOSE i \in 1..Len(c) : c[i][1] = key][2]
  ELSE 0

\* c[key] += n
CounterAdd(c, key, n) ==
  IF \E i \in 1..Len(c) : c[i][1] = key
  THEN [i \in 1..Len(c) |-> IF c[i][1] = key THEN <<key, c[i][2] + n>> ELSE c[i]]
  ELSE Append(c, <<key, n>>)

CounterKeys(c) == {c[i][1] : i \in 1..Len(c)}

\* sum(c.values())
RECURSIVE CounterTotal(_)
CounterTotal(c) == IF c = <<>> THEN 0 ELSE Head(c)[2] + CounterTotal(Tail(c))

\* Counter.most_common(n) is heapq.nlargest(n, items, key=count), which is
\* sorted(items, key=count, reverse=True)[:n]: a stable sort, so items of
\* equal count keep their insertion order.  Computed by selection: the
\* first item of the largest count, then the same on the rest.
\* most_common by an unstable selection: the last item of the largest count.
RECURSIVE most_commonFaulty(_, _)
most_commonFaulty(c, n) ==
  IF n = 0 \/ c = <<>> THEN <<>>
  ELSE LET i == CHOOSE i \in 1..Len(c) :
                  /\ \A j \in 1..Len(c) : c[j][2] <= c[i][2]
                  /\ \A j \in (i + 1)..Len(c) : c[j][2] < c[i][2]
       IN <<c[i]>> \o most_commonFaulty(SubSeq(c, 1, i - 1) \o SubSeq(c, i + 1, Len(c)), n - 1)

RECURSIVE most_common(_, _)
most_common(c, n) ==
  IF n = 0 \/ c = <<>> THEN <<>>
  ELSE LET i == CHOOSE i \in 1..Len(c) :
                  /\ \A j \in 1..Len(c) : c[j][2] <= c[i][2]
                  /\ \A j \in 1..(i - 1) : c[j][2] < c[i][2]
       IN <<c[i]>> \o most_common(SubSeq(c, 1, i - 1) \o SubSeq(c, i + 1, Len(c)), n - 1)

TopN == 10

(***************************************************************************)
(* analyze_files: the accumulators, the body of the loop for one parsed    *)
(* record, and the result dict.                                            *)
(***************************************************************************)
\* The accumulators as analyze_files initialises them.
InitAgg ==
  [total |-> 0, total_received |-> 0, total_sent |-> 0,
   status_counter |-> <<>>, client_counter |-> <<>>, url_counter |-> <<>>,
   total_req_time |-> DZero, req_time_count |-> 0, all_lines |-> <<>>]

\* x or y, on text.
Or(x, y) == IF x # <<>> THEN x ELSE y

\* The bucket of a status and of the outcome sc of int(status).
BucketOf(status, sc) ==
  IF sc.ok THEN IntStr(sc.val \div 100) \o <<"x", "x">> ELSE status

\* StatusBucket dividing by 10 where the source divides by 100.
StatusBucketFaulty(status) ==
  IF ParseInt(status).ok
  THEN IntStr(ParseInt(status).val \div 10) \o <<"x", "x">>
  ELSE status

\* The key of status_counter that a record increments.
StatusBucket(status) == BucketOf(status, ParseInt(status))

\* The non-None processing times of a record, in the order of the source.
Times(parsed) ==
  SelectSeq(<<parsed.request_processing_time,
              parsed.backend_processing_time,
              parsed.response_processing_time>>, IsFloat)

\* sum(times): 0 + times[0] + times[1] + ..., left to right.
RECURSIVE SumTimes(_, _)
SumTimes(times, acc) ==
  IF times = <<>> THEN acc ELSE SumTimes(Tail(times), DoubleAdd(acc, Head(times)))

\* The url that a record adds to url_counter, or None: the second
\* whitespace-separated word of its request field.
UrlOfParts(req, parts) ==
  IF req # <<>> /\ Len(parts) >= 2 THEN [k |-> "url", url |-> parts[2]] ELSE None

RequestUrl(parsed) == UrlOfParts(parsed.request, Split(parsed.request))

\* StatusCounterAfter as if "if status is not None" were "if status": a
\* record with neither status increments no bucket.
StatusCounterAfterFaulty(c, parsed) ==
  IF Or(parsed.elb_status, parsed.backend_status) # <<>>
  THEN CounterAdd(c, StatusBucket(Or(parsed.elb_status, parsed.backend_status)), 1)
  ELSE c

\* status_counter after the record: status = elb_status or backend_status
\* is text, never None, so one bucket is incremented for every record.
StatusCounterAfter(c, parsed) ==
  CounterAdd(c, StatusBucket(Or(parsed.elb_status, parsed.backend_status)), 1)

\* client_counter after the record.
ClientCounterAfter(c, parsed) ==
  IF parsed.client # <<>> THEN CounterAdd(c, BeforeColon(parsed.client), 1) ELSE c

\* url_counter after the record.
CountUrl(c, url) == IF url # None THEN CounterAdd(c, url.url, 1) ELSE c

UrlCounterAfter(c, parsed) == CountUrl(c, RequestUrl(parsed))

\* total_req_time and req_time_count after the record.
ReqTimeAfter(total_req_time, parsed) ==
  IF Times(parsed) # <<>>
  THEN DoubleAdd(total_req_time, SumTimes(Times(parsed), DZero))
  ELSE total_req_time

\* ReqTimeCountAfter with the increment outside "if times:".
ReqTimeCountAfterFaulty(req_time_count, parsed) == req_time_count + 1

ReqTimeCountAfter(req_time_count, parsed) ==
  IF Times(parsed) # <<>> THEN req_time_count + 1 ELSE req_time_count

\* BytesAfter with "=" where the source has "+=".
BytesAfterFaulty(sum, bytes) == bytes

\* total_received and total_sent after the record.
BytesAfter(sum, bytes) == sum + bytes

\* The body of the loop for a line that parsed to a record.
Fold(agg, parsed) ==
  [total |-> agg.total + 1,
   total_received |-> BytesAfter(agg.total_received, parsed.received_bytes),
   total_sent |-> BytesAfter(agg.total_sent, parsed.sent_bytes),
   status_counter |-> StatusCounterAfter(agg.status_counter, parsed),
   client_counter |-> ClientCounterAfter(agg.client_counter, parsed),
   url_counter |-> UrlCounterAfter(agg.url_counter, parsed),
   total_req_time |-> ReqTimeAfter(agg.total_req_time, parsed),
   req_time_count |-> ReqTimeCountAfter(agg.req_time_count, parsed),
   all_lines |-> Append(agg.all_lines, parsed)]

\* The result dict.
Result(agg) ==
  [k |-> "result",
   total_requests |-> agg.total,
   total_received_bytes |-> agg.total_received,
   total_sent_bytes |-> agg.total_sent,
   status_counts |-> agg.status_counter,
   top_clients |-> most_common(agg.client_counter, TopN),
   top_urls |-> most_common(agg.url_counter, TopN),
   avg_processing_time |->
     IF agg.req_time_count # 0
     THEN DoubleDivInt(agg.total_req_time, agg.req_time_count)
     ELSE None,
   all_lines |-> agg.all_lines]

(***************************************************************************)
(* The input: the lines a log file may hold.  Each is the text of the      *)
(* line, built from its space-separated fields as they stand in the file   *)
(* (quotes included).                                                      *)
(***************************************************************************)
RECURSIVE JoinSp(_)
JoinSp(fields) ==
  IF fields = <<>> THEN <<>>
  ELSE IF Len(fields) = 1 THEN fields[1]
  ELSE fields[1] \o <<" ">> \o JoinSp(Tail(fields))

tok_h2 == <<"h", "2">>
tok_T ==
  <<"2", "0", "2", "6", "-", "0", "2", "-", "0", "1", "T", "1", "9", ":",
    "4", "0", "Z">>
tok_t ==
  <<"1", "0", ".", "2", ".", "6", "4", ".", "2", "0", "2", ":", "6", "4",
    "4", "3">>
tok_x == <<"x">>
tok_client1 == <<"1", ".", "2", ".", "3", ".", "4", ":", "5">>
tok_client2 == <<"5", ".", "6", ".", "7", ".", "8", ":", "9">>
tok_lb == <<"a", "p", "p", "/", "l", "b">>
tok_empty == <<"\"", "\"">>
tok_dash == <<"-">>
tok_half == <<"0", ".", "5">>
tok_quarter == <<"0", ".", "2", "5">>
tok_eighth == <<"0", ".", "1", "2", "5">>
tok_tenth == <<"0", ".", "1">>
tok_fifth == <<"0", ".", "2">>
tok_threetenths == <<"0", ".", "3">>
tok_minus1 == <<"-", "1">>
tok_200 == <<"2", "0", "0">>
tok_504 == <<"5", "0", "4">>
tok_301 == <<"3", "0", "1">>
tok_99 == <<"9", "9">>
tok_57 == <<"5", "7">>
tok_4186 == <<"4", "1", "8", "6">>
tok_10 == <<"1", "0">>
tok_minus5 == <<"-", "5">>
tok_0 == <<"0">>
req_service ==
  <<"\"", "G", "E", "T", " ", "h", "t", "t", "p", ":", "/", "/", "h", "/",
    "r", "e", "s", "t", "/", "s", "e", "r", "v", "i", "c", "e", "s", "/",
    "f", "/", "s", "/", "1", "?", "f", "=", "j", " ", "H", "T", "T", "P",
    "/", "2", ".", "0", "\"">>
req_plain ==
  <<"\"", "G", "E", "T", " ", "h", "t", "t", "p", "s", ":", "/", "/", "h",
    "/", "x", " ", "H", "T", "T", "P", "/", "2", ".", "0", "\"">>
req_bare ==
  <<"h", "t", "t", "p", ":", "/", "/", "h", "/", "r", "e", "s", "t", "/",
    "s", "e", "r", "v", "i", "c", "e", "s", "/", "/", "a">>
req_nourl ==
  <<"\"", "G", "E", "T", " ", "/", "x", " ", "H", "T", "T", "P", "/", "2",
    ".", "0", "\"">>
req_unbalanced ==
  <<"\"", "G", "E", "T", " ", "h", "t", "t", "p", ":", "/", "/", "h", "/",
    "x", " ", "H", "T", "T", "P", "/", "2", ".", "0">>

\* A line of the layout parse_elb_line reads: parts[2] the client, parts[4..6]
\* the processing times, parts[7..8] the statuses, parts[9..10] the byte
\* counts, then the fields of rest (parts[11], and the request as parts[12]).
LogLine(client, times, statuses, bytes, rest) ==
  JoinSp(<<tok_h2, tok_T, client, tok_t>> \o times \o statuses \o bytes \o rest)

\* Lines that parse to a record.
LServiceOk ==
  LogLine(tok_client1, <<tok_half, tok_quarter, tok_eighth>>, <<tok_200, tok_200>>,
          <<tok_57, tok_4186>>, <<tok_x, req_service>>)
LTenth ==
  LogLine(tok_client2, <<tok_tenth, tok_dash, tok_dash>>, <<tok_504, tok_dash>>,
          <<tok_10, tok_57>>, <<tok_x, req_plain>>)
LFifth ==
  LogLine(tok_client1, <<tok_fifth, tok_dash, tok_dash>>, <<tok_dash, tok_200>>,
          <<tok_dash, tok_dash>>, <<tok_x, req_plain>>)
LThreeTenths ==
  LogLine(tok_empty, <<tok_threetenths, tok_dash, tok_dash>>, <<tok_empty, tok_301>>,
          <<tok_minus5, tok_10>>, <<tok_x, req_bare>>)
LAllNull ==
  LogLine(tok_lb, <<tok_dash, tok_dash, tok_dash>>, <<tok_99, tok_200>>,
          <<tok_0, tok_0>>, <<tok_x, req_plain>>)
LNegTime ==
  LogLine(tok_client2, <<tok_minus1, tok_minus1, tok_minus1>>, <<tok_empty, tok_empty>>,
          <<tok_0, tok_57>>, <<tok_x, req_plain>>)

\* Lines with at least 12 tokens and no absolute URL in parts[12].
LNoRequest ==
  LogLine(tok_client1, <<tok_half, tok_quarter, tok_eighth>>, <<tok_200, tok_200>>,
          <<tok_57, tok_4186>>, <<tok_x>>)
LNoUrl ==
  LogLine(tok_client1, <<tok_half, tok_quarter, tok_eighth>>, <<tok_200, tok_200>>,
          <<tok_57, tok_4186>>, <<tok_x, req_nourl>>)

\* Lines with an unbalanced double quote.
LUnbalanced ==
  LogLine(tok_client1, <<tok_half, tok_quarter, tok_eighth>>, <<tok_200, tok_200>>,
          <<tok_57, tok_4186>>, <<tok_x, req_unbalanced>>)
LShortUnbalanced == <<"a", " ", "\"", "b">>

\* Lines that are skipped.
LEmpty == <<>>
LBlank == <<" ", " ">>
LComment == <<"#", "\"", "c">>
LIndentedComment == <<" ", "#", "c">>
LShort == <<"a", " ", "b", " ", "c">>
LEleven ==
  JoinSp(<<tok_h2, tok_T, tok_client1, tok_t, tok_half, tok_quarter, tok_eighth,
           tok_200, tok_200, tok_57, tok_4186>>)

RecordLines == {LServiceOk, LTenth, LFifth, LThreeTenths, LAllNull, LNegTime}
RaisingLines == {LNoRequest, LNoUrl, LUnbalanced, LShortUnbalanced}
SkippedLines == {LEmpty, LBlank, LComment, LIndentedComment, LShort, LEleven}
Lines == RecordLines \cup RaisingLines \cup SkippedLines

\* The number of lines the input files hold, at most.
MaxLines == 3

(***************************************************************************)
(* merge of two partial aggregates (the spec's Aggregator.merge): every    *)
(* accumulator of b is added to that of a; a Counter is merged as          *)
(* Counter.update does, b's keys in b's order.                             *)
(***************************************************************************)
RECURSIVE CounterUpdate(_, _)
CounterUpdate(a, b) ==
  IF b = <<>> THEN a
  ELSE CounterUpdate(CounterAdd(a, Head(b)[1], Head(b)[2]), Tail(b))

Merge(a, b) ==
  [total |-> a.total + b.total,
   total_received |-> a.total_received + b.total_received,
   total_sent |-> a.total_sent + b.total_sent,
   status_counter |-> CounterUpdate(a.status_counter, b.status_counter),
   client_counter |-> CounterUpdate(a.client_counter, b.client_counter),
   url_counter |-> CounterUpdate(a.url_counter, b.url_counter),
   total_req_time |-> DoubleAdd(a.total_req_time, b.total_req_time),
   req_time_count |-> a.req_time_count + b.req_time_count,
   all_lines |-> a.all_lines \o b.all_lines]

(***************************************************************************)
(* The frequency tables most_common is applied to: keys c1, c2, ... in     *)
(* insertion order, each with a count.                                     *)
(***************************************************************************)
\* The number of distinct keys of a table, at most.
MaxKeys == 11

KeyOf(i) == <<"c">> \o IntStr(i)

Tables ==
  UNION {{[i \in 1..n |-> <<KeyOf(i), f[i]>>] : f \in [1..n -> {1, 2}]} : n \in 0..MaxKeys}

(***************************************************************************)
(* analyze_files as a state machine: one step per line of the input.       *)
(*   pc      where the call is: in the loop, returned, or ended by an      *)
(*           exception that nothing catches                                *)
(*   agg     the accumulators                                              *)
(*   line    the line read last (as the file holds it), nread how many     *)
(*           lines have been read                                          *)
(*   result  the returned dict, exc the exception that ended the call      *)
(* Beside it, for the partitioned run of the spec:                         *)
(*   phase   the worker that reads the lines ("A", then "B")               *)
(*   wA, wB  the two workers' partial aggregates                           *)
(*   merged  the report of merge(wA, wB)                                   *)
(* and for most_common on its own:                                         *)
(*   tbl     a frequency table, top the lists extracted from it so far     *)
(***************************************************************************)
VARIABLES pc, agg, line, nread, result, exc, phase, wA, wB, merged, tbl, top

vars == <<pc, agg, line, nread, result, exc, phase, wA, wB, merged, tbl, top>>

workerVars == <<phase, wA, wB, merged>>

topVars == <<tbl, top>>

Init ==
  /\ pc = "loop"
  /\ agg = InitAgg
  /\ line = <<>>
  /\ nread = 0
  /\ result = None
  /\ exc = "none"
  /\ phase = "A"
  /\ wA = InitAgg
  /\ wB = InitAgg
  /\ merged = None
  /\ tbl = <<>>
  /\ top = <<>>

\* parsed = parse_elb_line(line.strip()), for every line of the input.
ParsedLines == [l \in Lines |-> parse_elb_line(Strip(l))]

Parsed(l) == ParsedLines[l]

\* The accumulators after the line l: unchanged when it is skipped
\* ("continue") or raises, folded when it parsed to a record.
AfterLine(a, parsed) ==
  IF parsed.k = "record" THEN Fold(a, parsed) ELSE a

\* One iteration of "for line in fh" on the line l, which parses to
\* parsed: an exception ends the call, otherwise the loop goes on with the
\* accumulators after the line.
Iterate(l, parsed) ==
  /\ pc = "loop"
  /\ nread < MaxLines
  /\ line' = l
  /\ nread' = nread + 1
  /\ pc' = IF parsed.k = "raise" THEN "raised" ELSE pc
  /\ exc' = IF parsed.k = "raise" THEN parsed.exc ELSE exc
  /\ agg' = AfterLine(agg, parsed)
  /\ result' = result

ReadLine ==
  /\ \E l \in Lines : Iterate(l, Parsed(l))
  /\ UNCHANGED <<workerVars, topVars>>

\* The files are exhausted: the result dict is built and returned.
Finish ==
  /\ pc = "loop"
  /\ pc' = "done"
  /\ result' = Result(agg)
  /\ UNCHANGED <<agg, line, nread, exc, workerVars, topVars>>

Next == ReadLine \/ Finish

Spec == Init /\ [][Next]_vars

(***************************************************************************)
(* The partitioned run: the lines are split between worker A (the first    *)
(* files) and worker B (the rest); each folds its own lines into its own   *)
(* aggregate, and the two are merged at the end.  The single pass of       *)
(* analyze_files over the same lines runs beside it, in agg.  The lines    *)
(* are lines that parse to a record (merge is about sequences of records)  *)
(* and that differ in what they add to the accumulators.                   *)
(***************************************************************************)
MergeLines == {LTenth, LFifth, LThreeTenths, LAllNull, LNegTime}

WorkerReadLine ==
  /\ \E l \in MergeLines : \E parsed \in {Parsed(l)} :
       /\ Iterate(l, parsed)
       /\ wA' = IF phase = "A" THEN AfterLine(wA, parsed) ELSE wA
       /\ wB' = IF phase = "B" THEN AfterLine(wB, parsed) ELSE wB
  /\ UNCHANGED <<phase, merged, topVars>>

\* The lines of worker A end here; the rest are worker B's.
NextWorker ==
  /\ pc = "loop"
  /\ phase = "A"
  /\ phase' = "B"
  /\ UNCHANGED <<pc, agg, line, nread, result, exc, wA, wB, merged, topVars>>

MergeFinish ==
  /\ pc = "loop"
  /\ pc' = "done"
  /\ result' = Result(agg)
  /\ merged' = Result(Merge(wA, wB))
  /\ UNCHANGED <<agg, line, nread, exc, phase, wA, wB, topVars>>

NextMerge == WorkerReadLine \/ NextWorker \/ MergeFinish

SpecMerge == Init /\ [][NextMerge]_vars

(***************************************************************************)
(* most_common on its own: a table is given, and the top TopN is           *)
(* extracted from it, once and then again.                                 *)
(***************************************************************************)
InitTop ==
  /\ pc = "loop" /\ agg = InitAgg /\ line = <<>> /\ nread = 0
  /\ result = None /\ exc = "none"
  /\ phase = "A" /\ wA = InitAgg /\ wB = InitAgg /\ merged = None
  /\ tbl \in Tables
  /\ top = <<>>

Extract ==
  /\ top = <<>>
  /\ top' = <<most_common(tbl, TopN)>>
  /\ UNCHANGED <<pc, agg, line, nread, result, exc, workerVars, tbl>>

ExtractAgain ==
  /\ Len(top) = 1
  /\ top' = Append(top, most_common(tbl, TopN))
  /\ UNCHANGED <<pc, agg, line, nread, result, exc, workerVars, tbl>>

NextTop == Extract \/ ExtractAgain

SpecTop == InitTop /\ [][NextTop]_vars

(***************************************************************************)
(* The properties.  Their vocabulary first: the records folded so far are  *)
(* agg.all_lines, in the order of the input.                               *)
(***************************************************************************)
Records == agg.all_lines

LastRecord == Records[Len(Records)]

\* How many of the records satisfy P.
CountRecords(P(_)) == Cardinality({i \in 1..Len(Records) : P(Records[i])})

\* The histogram c holds, for every key, the number of records of that
\* bucket, and no other key.
IsHistogramOf(c, Bucket(_)) ==
  /\ \A i \in 1..Len(Records) :
       CounterGet(c, Bucket(Records[i]))
         = Cardinality({j \in 1..Len(Records) : Bucket(Records[j]) = Bucket(Records[i])})
  /\ CounterKeys(c) = {Bucket(Records[i]) : i \in 1..Len(Records)}

\* The line holds an odd number of double quotes.
UnbalancedQuotes(l) == Cardinality({i \in 1..Len(l) : l[i] = "\""}) % 2 = 1

\* C1: whatever the lines are, no line makes parse_elb_line or analyze_files
\* raise; in particular a line with unbalanced double quotes does not
\* raise: it is split or skipped, and the run goes on.
C1_UnbalancedQuotesDoNotRaise ==
  (nread > 0 /\ UnbalancedQuotes(line)) => pc # "raised"

\* The request field of a line of at least 12 tokens matches no service
\* pattern (it may be absent, or hold no absolute URL).
Unclassified(l) ==
  /\ Strip(l) # <<>>
  /\ ~StartsWith(Strip(l), <<"#">>)
  /\ shlex_split(Strip(l)).err = "none"
  /\ Len(shlex_split(Strip(l)).parts) >= 12
  /\ \/ Len(shlex_split(Strip(l)).parts) = 12
     \/ SearchService(shlex_split(Strip(l)).parts[13]) = None

\* C2: a line of at least 12 tokens whose request field matches no service
\* pattern still gives a complete record, whose service name is empty; it
\* is never an error.
C2_UnclassifiedLineGivesRecord ==
  (nread > 0 /\ Unclassified(line)) =>
    /\ pc # "raised"
    /\ Records # <<>>
    /\ LastRecord.mapservice = <<>>

\* The first digit of a status that parses as an integer, followed by "xx".
FirstDigitXX(status) ==
  <<status[CHOOSE i \in 1..Len(status) :
             IsDigit(status[i]) /\ \A j \in 1..(i - 1) : ~IsDigit(status[j])]>>
    \o <<"x", "x">>

\* The bucket as C3 states it: the elb status as an integer, else the
\* backend status as an integer, else the literal status text.
ClaimedBucket(r) ==
  IF ParseInt(r.elb_status).ok THEN FirstDigitXX(r.elb_status)
  ELSE IF ParseInt(r.backend_status).ok THEN FirstDigitXX(r.backend_status)
  ELSE Or(r.elb_status, r.backend_status)

\* C3, as stated: the elb status is tried as an integer first and, when
\* that fails, the backend status; if either parses the bucket is its first
\* digit followed by "xx"; only when both fail is the bucket the literal
\* status text.
C3_BucketTriesElbThenBackend == IsHistogramOf(agg.status_counter, ClaimedBucket)

\* The bucket of the one status text that is looked at: the elb status, or
\* the backend status when the elb status is empty.
OneStatusBucket(r) ==
  LET status == IF r.elb_status = <<>> THEN r.backend_status ELSE r.elb_status
      n == ParseInt(status)
  IN IF n.ok THEN IntStr(n.val \div 100) \o <<"x", "x">> ELSE status

\* C3, amended: the status of a record is its elb status, or its backend
\* status when the elb status is empty; if that text parses as an integer n
\* the bucket is n // 100 followed by "xx", otherwise it is that text; no
\* status raises.
C3_BucketOfOneStatus == IsHistogramOf(agg.status_counter, OneStatusBucket)

\* Records of a numeric elb status, of a non-numeric elb status beside a
\* numeric backend status, of an empty elb status, and of a status below
\* 100 have been folded.
C3_Witness ==
  /\ CounterGet(agg.status_counter, <<"2", "x", "x">>) > 0
  /\ CounterGet(agg.status_counter, <<"-">>) > 0
  /\ \/ CounterGet(agg.status_counter, <<"3", "x", "x">>) > 0
     \/ CounterGet(agg.status_counter, <<"0", "x", "x">>) > 0

\* C4: the URL table holds exact counts: for every URL u, its count is the
\* number of folded records whose extracted request URL is u; so top_urls
\* is non-empty as soon as one folded record has a request URL.
C4_UrlTableCountsRequests ==
  /\ \A i \in 1..Len(Records) :
       Records[i].request # <<>> =>
         CounterGet(agg.url_counter, Records[i].request)
           = Cardinality({j \in 1..Len(Records) : Records[j].request = Records[i].request})
  /\ (pc = "done" /\ \E i \in 1..Len(Records) : Records[i].request # <<>>)
       => result.top_urls # <<>>

\* C5: the values of the status histogram sum to the number of records:
\* every record counted in the total is counted in exactly one bucket.
C5_StatusHistogramSumsToTotal ==
  /\ CounterTotal(agg.status_counter) = agg.total
  /\ agg.total = Len(Records)
  /\ pc = "done" => CounterTotal(result.status_counts) = result.total_requests

\* Records of three different buckets, one of them the empty status, have
\* been folded and reported.
C5_Witness ==
  /\ pc = "done"
  /\ result.total_requests >= 3
  /\ Len(result.status_counts) >= 3
  /\ CounterGet(result.status_counts, <<>>) > 0

\* The processing-time components of a record that are not null.
NonNullTimes(r) ==
  SelectSeq(<<r.request_processing_time, r.backend_processing_time,
              r.response_processing_time>>, LAMBDA t : t # None)

HasTime(r) == NonNullTimes(r) # <<>>

\* The sum of the non-null components of a record, as sum() adds them.
RecordTime(r) ==
  LET t == NonNullTimes(r)
  IN IF Len(t) = 1 THEN DoubleAdd(DZero, t[1])
     ELSE IF Len(t) = 2 THEN DoubleAdd(DoubleAdd(DZero, t[1]), t[2])
     ELSE DoubleAdd(DoubleAdd(DoubleAdd(DZero, t[1]), t[2]), t[3])

\* The latency sum over the first n records, in their order.
RECURSIVE LatencySum(_)
LatencySum(n) ==
  IF n = 0 THEN DZero
  ELSE IF HasTime(Records[n]) THEN DoubleAdd(LatencySum(n - 1), RecordTime(Records[n]))
  ELSE LatencySum(n - 1)

\* C8: the mean latency of the report is null when no folded record has a
\* non-null processing-time component; otherwise it is the sum, over the
\* records that have one, of the record's non-null components, divided by
\* the number of such records.  A record whose three components are null
\* changes neither the running sum nor the running count.
C8_MeanLatency ==
  /\ agg.req_time_count = CountRecords(HasTime)
  /\ agg.total_req_time = LatencySum(Len(Records))
  /\ pc = "done" =>
       IF CountRecords(HasTime) = 0 THEN result.avg_processing_time = None
       ELSE result.avg_processing_time
              = DoubleDivInt(LatencySum(Len(Records)), CountRecords(HasTime))

AllNull(r) == ~HasTime(r)

\* A report over records with and without processing times, whose mean is
\* not null; and a report over records without any, whose mean is null.
C8_Witness ==
  /\ pc = "done"
  /\ CountRecords(HasTime) >= 2
  /\ CountRecords(AllNull) >= 1
  /\ result.avg_processing_time # None
  /\ result.avg_processing_time # DZero

C8_WitnessNull ==
  /\ pc = "done"
  /\ Len(Records) >= 1
  /\ result.avg_processing_time = None

\* The line is empty, starts with "#", or tokenizes to fewer than 12 tokens.
SkippedLine(l) ==
  \/ Strip(l) = <<>>
  \/ Head(Strip(l)) = "#"
  \/ /\ shlex_split(Strip(l)).err = "none"
     /\ Len(shlex_split(Strip(l)).parts) < 12

\* C9: a line that is empty, starts with "#" or tokenizes to fewer than 12
\* tokens yields no record: reading it leaves every accumulator (total,
\* byte sums, status histogram, client and URL tables, latency sum and
\* count, record list) as it was, and the loop goes on.
C9_SkippedLineLeavesAggregate ==
  [][(nread' = nread + 1 /\ SkippedLine(line')) => (agg' = agg /\ pc' = "loop")]_vars

\* A line of fewer than 12 tokens has been read after two records were
\* folded.
C9_Witness ==
  /\ pc = "loop"
  /\ agg.total = 2
  /\ nread = 3
  /\ SkippedLine(line)
  /\ Strip(line) # <<>>
  /\ Head(Strip(line)) # "#"

\* C10: every record has non-negative byte counts and processing times
\* that are null or non-negative, whatever the tokens are; so the totals of
\* received and sent bytes are non-negative and never decrease.
C10_RecordsWithinRanges ==
  /\ \A i \in 1..Len(Records) :
       /\ Records[i].received_bytes >= 0
       /\ Records[i].sent_bytes >= 0
       /\ \A j \in 1..Len(NonNullTimes(Records[i])) :
            ~DoubleIsNegative(NonNullTimes(Records[i])[j])
  /\ agg.total_received >= 0
  /\ agg.total_sent >= 0

\* Two histograms hold the same counts (a dict compares without order).
SameCounts(c, d) == {c[i] : i \in 1..Len(c)} = {d[i] : i \in 1..Len(d)}

\* Two top-N lists agree apart from the order of entries of equal count.
SameUpToTies(a, b) ==
  /\ Len(a) = Len(b)
  /\ \A i \in 1..Len(a) : a[i][2] = b[i][2]
  /\ SameCounts(a, b)

\* The two reports agree on everything but the mean latency.
SameButMean(r1, r2) ==
  /\ r1.total_requests = r2.total_requests
  /\ r1.total_received_bytes = r2.total_received_bytes
  /\ r1.total_sent_bytes = r2.total_sent_bytes
  /\ SameCounts(r1.status_counts, r2.status_counts)
  /\ SameUpToTies(r1.top_clients, r2.top_clients)
  /\ SameUpToTies(r1.top_urls, r2.top_urls)
  /\ r1.all_lines = r2.all_lines

IsTopN(items) ==
  /\ Len(items) = IF Len(tbl) < 10 THEN Len(tbl) ELSE 10
  /\ \A i \in 1..Len(items) : \E j \in 1..Len(tbl) : tbl[j] = items[i]
  /\ \A i, j \in 1..Len(items) : i < j => items[i][2] >= items[j][2]
  /\ \A i, j \in 1..Len(items) : i < j => items[i][1] # items[j][1]
  /\ \A j \in 1..Len(tbl) :
       (\A i \in 1..Len(items) : items[i] # tbl[j]) =>
         \A i \in 1..Len(items) : tbl[j][2] <= items[i][2]
  /\ \A i, j \in 1..Len(items) :
       (i < j /\ items[i][2] = items[j][2]) =>
         \E a, b \in 1..Len(tbl) : a < b /\ tbl[a] = items[i] /\ tbl[b] = items[j]

\* C7: the top-N extraction (N = 10) returns at most N entries of the
\* table, ordered by count descending; every omitted key has a count no
\* larger than the smallest returned; keys of equal count are in the order
\* they were first observed; and extracting again gives the identical list.
C7_TopN ==
  /\ \A e \in 1..Len(top) : IsTopN(top[e])
  /\ Len(top) = 2 => top[1] = top[2]

\* Two extractions from a table of more than 10 keys, where an omitted key
\* has the smallest returned count, and returned keys tie.
C7_Witness ==
  /\ Len(top) = 2
  /\ Len(tbl) > 10
  /\ \E j \in 1..Len(tbl) :
       /\ \A i \in 1..10 : top[2][i] # tbl[j]
       /\ tbl[j][2] = top[2][10][2]
  /\ top[2][1][2] > top[2][10][2]
  /\ top[2][1][2] = top[2][2][2]

====
